---- MODULE Spec2Model ----
(***************************************************************************)
(* Model of the manual Debian package builder of the Computer-Use agent:   *)
(*   src/computer-use-agent/create_deb_manual.py                           *)
(*     create_ar_archive(output_path, files)   the Unix ar container writer *)
(*     create_deb_package()                    the .deb orchestration       *)
(*                                                                         *)
(* Text is a sequence of code points, bytes are a sequence of 0..255.      *)
(* A bytes object is a record [head, rest, of]: head are its leading bytes *)
(* spelled out, rest is the number of further bytes that are not spelled   *)
(* out, and "of" tells what those further bytes hold (the entries of a tar *)
(* stream, or nothing for filler).  Lengths are kept as [hi, lo] with      *)
(* value hi * 10^9 + lo, so that a length of more than ten decimal digits  *)
(* can be written down.                                                    *)
(***************************************************************************)
EXTENDS Integers, Sequences, FiniteSets, TLC

(* ------------------------------ bounds -------------------------------- *)

\* longest member list handed to create_ar_archive by a direct caller
MaxMembers == 2

\* largest payload length of the size-field round trip
MaxLen == 10000

\* latest second the clock reaches
MaxClock == 1

\* names mkdtemp can draw from
MaxTempNames == 2

\* invocations of the script, one after the other
MaxRuns == 2

(* --------------------------- characters ------------------------------- *)

Lower == <<"a","b","c","d","e","f","g","h","i","j","k","l","m",
           "n","o","p","q","r","s","t","u","v","w","x","y","z">>

Digit == <<"0","1","2","3","4","5","6","7","8","9">>

\* code point of a character (Python ord)
Ord(c) ==
    IF \E k \in 1..26 : Lower[k] = c THEN 96 + (CHOOSE k \in 1..26 : Lower[k] = c)
    ELSE IF \E k \in 1..10 : Digit[k] = c THEN 47 + (CHOOSE k \in 1..10 : Digit[k] = c)
    ELSE CASE c = "\n" -> 10
           [] c = " "  -> 32
           [] c = "!"  -> 33
           [] c = "-"  -> 45
           [] c = "."  -> 46
           [] c = "/"  -> 47
           [] c = "<"  -> 60
           [] c = ">"  -> 62
           [] c = "_"  -> 95

\* a str literal / a bytes literal, character by character
Lit(cs) == [k \in 1..Len(cs) |-> Ord(cs[k])]

(* ----------------------------- lengths -------------------------------- *)

Base == 10^9

Big(h, l) == [hi |-> h, lo |-> l]

Nat2Big(n) == Big(0, n)

BigAdd(a, b) ==
    LET s == a.lo + b.lo
    IN  Big(a.hi + b.hi + (s \div Base), s % Base)

BigOdd(a) == a.lo % 2 = 1

(* --------------------------- bytes objects ---------------------------- *)

\* a bytes object whose bytes are all spelled out
Bytes(s) == [head |-> s, rest |-> Nat2Big(0), of |-> <<>>]

\* len(b)
PyLen(b) == BigAdd(Nat2Big(Len(b.head)), b.rest)

\* bytes.ljust(width, fill): pads on the right, never shortens
LJust(s, width, fill) ==
    IF Len(s) >= width THEN s
    ELSE s \o [k \in 1..(width - Len(s)) |-> fill]

\* str(n) replaced by the octal text of n
RECURSIVE StrNat_Octal(_)
StrNat_Octal(n) ==
    IF n < 8 THEN <<48 + n>>
    ELSE StrNat_Octal(n \div 8) \o <<48 + (n % 8)>>

\* str(n) for a non-negative int below Base, as ASCII bytes
RECURSIVE StrNat(_)
StrNat(n) ==
    IF n < 10 THEN <<48 + n>>
    ELSE StrNat(n \div 10) \o <<48 + (n % 10)>>

\* str(n).encode(ascii) for a length
StrLen(n) ==
    IF n.hi = 0 THEN StrNat(n.lo)
    ELSE LET low == StrNat(n.lo)
         IN  StrNat(n.hi) \o [k \in 1..(9 - Len(low)) |-> 48] \o low

\* str.encode(ascii) succeeds exactly on code points below 128
IsAscii(s) == \A k \in 1..Len(s) : s[k] < 128

(* ------------------------- create_ar_archive -------------------------- *)

AR_MAGIC == Lit(<<"!","<","a","r","c","h",">","\n">>)

SPACE == 32

\* the name field without the cut of lines 23-24
NameField_NoTruncate(file_path) == LJust(file_path, 16, SPACE)

\* lines 22-27: the 16-byte name field
NameField(file_path) ==
    LET name == IF Len(file_path) > 16 THEN SubSeq(file_path, 1, 16) ELSE file_path
    IN  LJust(name, 16, SPACE)

\* line 34: the size field
SizeField(data) == LJust(StrLen(PyLen(data)), 10, SPACE)

\* lines 22-40: the header of one member
ArHeader(file_path, data) ==
    LET name      == NameField(file_path)
        timestamp == LJust(Lit(<<"0">>), 12, SPACE)
        owner_id  == LJust(Lit(<<"0">>), 6, SPACE)
        group_id  == LJust(Lit(<<"0">>), 6, SPACE)
        mode      == LJust(Lit(<<"6","4","4">>), 8, SPACE)
        size      == SizeField(data)
        end_marker == <<96, 10>>
    IN  name \o timestamp \o owner_id \o group_id \o mode \o size \o end_marker

\* a newline after every payload, whatever its length
NeedsPad_Always(data) == TRUE

\* line 46: len(data) % 2
NeedsPad(data) == BigOdd(PyLen(data))


(* ------------------------------ state --------------------------------- *)

VARIABLES
    pc,        \* position of the running call
    caller,    \* who called create_ar_archive: "direct", "deb" or "none"
    files,     \* create_ar_archive: the (name, payload) list being written
    i,         \* create_ar_archive: index of the member the loop is at
    out,       \* the file at the output path: [exists, chunks written]
    out0,      \* the file at the output path when the call started
    raised,    \* the exception in flight or escaped, "none" if there is none
    log,       \* milestones of the run, in the order they happened
    staging,   \* linux_package/computer-use-agent_1.0.0_amd64: [exists, files]
    sep,       \* os.sep of the platform, as a code point
    temp,      \* the TemporaryDirectory: "none", "exists" or "removed"
    control_tar,    \* control.tar.gz in the temporary directory: [state, entries]
    data_tar,       \* data.tar.gz in the temporary directory: [state, entries]
    todo,      \* files the running rglob walk has still to yield
    subdir,    \* index in <<usr, etc>> of the data sub-directory being walked
    debian_binary,  \* local of create_deb_package
    control_data,   \* local of create_deb_package
    data_data,      \* local of create_deb_package
    ret,       \* what create_deb_package returned: "none", "True" or "False"
    now,       \* the last second time.time() returned
    tmp_used,  \* names of the directories that exist in the system temp directory
    temp_name, \* name of this build's temporary directory, 0 before it has one
    disk,      \* the file at the output path as other processes see it
    meta,      \* LinuxPackageCreator: [app_name, version]
    control_text,   \* what create_control_file last wrote to DEBIAN/control
    prev,      \* outcome of the invocation before this one
    runs,      \* number of the invocation, from 1
    other,     \* the build that is not running now, as it was suspended
    same_cwd,  \* the two builds run in the same working directory
    overlap,   \* a build was suspended while both were under way
    bpc,       \* where build_deb_package stands
    cwd,       \* the working directory of the process: "project" or "package"
    cmd,       \* index of the build command the loop is at
    tried,     \* the commands run so far, each with how it ended
    success,   \* build_deb_package: a command built the package
    made,      \* names of the files this invocation created in package_dir
    copied,    \* names of the files this invocation copied to project_dir
    bret       \* what build_deb_package returned: "none", "True" or "False"

arVars == <<pc, caller, files, i, out, out0, raised, log>>

debVars == <<staging, sep, temp, control_tar, data_tar, todo, subdir,
             debian_binary, control_data, data_data, ret>>

bVars == <<bpc, cwd, cmd, tried, success, made, copied, bret>>

\* what the builds of create_deb_manual.py have besides their locals
pVars == <<now, tmp_used, temp_name, disk, meta, control_text, prev, runs,
           other, same_cwd, overlap>>

xVars == <<pVars, bVars>>

\* xVars without the clock, without the temporary names, without the disk
xNoClock == <<tmp_used, temp_name, disk, meta, control_text, prev, runs,
              other, same_cwd, overlap, bVars>>

xNoTemp == <<now, disk, meta, control_text, prev, runs, other, same_cwd, overlap,
             bVars>>

xNoDisk == <<now, tmp_used, temp_name, meta, control_text, prev, runs,
             other, same_cwd, overlap, bVars>>

vars == <<arVars, debVars, xVars>>

NoFile == [exists |-> FALSE, chunks |-> <<>>]

\* a file left at the output path by an earlier build
OldFile == [exists |-> TRUE, chunks |-> <<Bytes(Lit(<<"o","l","d">>))>>]

\* file.write(b): the written bytes follow what the file already holds
Write(f, b) == [f EXCEPT !.chunks = Append(@, b)]

\* closing the file object writes what it holds from offset 0 of the file
\* on disk; what another writer left beyond that stays
Flush(d, f) ==
    [exists |-> TRUE,
     chunks |-> f.chunks \o SubSeq(d.chunks, Len(f.chunks) + 1, Len(d.chunks))]

(* --------------------------- the staged tree --------------------------- *)

\* most files a staged tree holds
MaxFiles == 3

SEG_DEBIAN == <<68, 69, 66, 73, 65, 78>>

SEG_usr == Lit(<<"u","s","r">>)

SEG_etc == Lit(<<"e","t","c">>)

SEG_bin == Lit(<<"b","i","n">>)

\* permission bits 0o644, 0o755, 0o600
MODE_644 == 6 * 64 + 4 * 8 + 4

MODE_755 == 7 * 64 + 5 * 8 + 5

MODE_600 == 6 * 64

\* a regular file of the staged tree; path is relative to the staging directory
StagedFile(p, m, n) == [path |-> p, mode |-> m, size |-> n]

\* the files a staged tree is drawn from
FileUniverse ==
    { StagedFile(<<SEG_DEBIAN, Lit(<<"c","o","n","t","r","o","l">>)>>, MODE_644, 5),
      StagedFile(<<SEG_DEBIAN, Lit(<<"p","o","s","t","i","n","s","t">>)>>, MODE_755, 4),
      StagedFile(<<SEG_DEBIAN, Lit(<<"s","u","b">>), Lit(<<"e","x","t","r","a">>)>>, MODE_644, 1),
      StagedFile(<<SEG_usr, SEG_bin, Lit(<<"t","o","o","l">>)>>, MODE_644, 10),
      StagedFile(<<SEG_usr, SEG_bin, Lit(<<"t","o","o","l",".","p","y">>)>>, MODE_644, 3),
      StagedFile(<<SEG_usr, Lit(<<"s","h","a","r","e">>), Lit(<<"c","a","b","i","n">>), Lit(<<"x">>)>>, MODE_644, 2),
      StagedFile(<<SEG_etc, Lit(<<"a","p","p",".","c","o","n","f">>)>>, MODE_600, 7),
      StagedFile(<<Lit(<<"o","p","t">>), Lit(<<"x">>)>>, MODE_644, 1) }

NoStaging == [exists |-> FALSE, files |-> {}, unreadable |-> {}]

\* the staging directories a build can find: absent, or a directory holding
\* up to MaxFiles files, some of which cannot be opened for reading
Stagings ==
    {NoStaging} \cup
    { [exists |-> TRUE, files |-> S, unreadable |-> U] :
        <<S, U>> \in { su \in (SUBSET FileUniverse) \X (SUBSET FileUniverse) :
                         /\ Cardinality(su[1]) <= MaxFiles
                         /\ su[2] \subseteq su[1] } }

\* Path.rglob('*') filtered by is_file(): the regular files below the
\* directory dir of the staging directory, none if dir does not exist
FilesUnder(dir) == {f \in staging.files : f.path[1] = dir}

\* Path.exists() of a directory directly below the staging directory
SubdirExists(dir) == FilesUnder(dir) # {}

\* the directories below dir, as rglob yields them next to the files
DirsUnder(dir) ==
    UNION { { [path |-> SubSeq(f.path, 1, n), mode |-> MODE_755, size |-> 0] :
                n \in 2..(Len(f.path) - 1) } : f \in FilesUnder(dir) }

\* lines 71 and 82: rglob('*') yields every path below dir
RGlob(dir) == FilesUnder(dir) \cup DirsUnder(dir)

\* lines 72 and 83
IsFile(p) == p \in staging.files

\* the walk keeping whatever rglob yields
WalkFiles_NoFilter(dir) == RGlob(dir)

\* lines 71-72 and 82-83: the paths of the walk that pass is_file()
WalkFiles(dir) == {p \in RGlob(dir) : IsFile(p)}

\* the path taken relative to the staging directory, whatever the base
RelativeTo_StagingDir(path, n) == path

\* file_path.relative_to(base), base being the first n segments
RelativeTo(path, n) == SubSeq(path, n + 1, Len(path))

\* the segments of a path joined by a separator
RECURSIVE JoinPath(_, _)
JoinPath(segs, c) ==
    IF Len(segs) = 0 THEN <<>>
    ELSE IF Len(segs) = 1 THEN segs[1]
    ELSE segs[1] \o <<c>> \o JoinPath(Tail(segs), c)

\* str(path) on the platform
StrPath(segs) == JoinPath(segs, sep)

\* needle in hay
Contains(hay, needle) ==
    \E k \in 1..(Len(hay) - Len(needle) + 1) :
        SubSeq(hay, k, k + Len(needle) - 1) = needle

\* PurePath.suffix: the last component from its last dot on, provided the
\* dot is neither its first nor its last character
PathSuffix(path) ==
    LET name == path[Len(path)]
        dots == {k \in 1..Len(name) : name[k] = 46}
    IN  IF dots = {} THEN <<>>
        ELSE LET d == CHOOSE k \in dots : \A j \in dots : j <= k
             IN  IF 1 < d /\ d < Len(name) THEN SubSeq(name, d, Len(name)) ELSE <<>>

\* str.replace(os.sep, "/")
ReplaceSep(s) == [k \in 1..Len(s) |-> IF s[k] = sep THEN 47 ELSE s[k]]

\* the entry named by str(arcname) as it stands, os.sep included
TarInfo_NoSepFix(f, arcname) == [name |-> StrPath(arcname), mode |-> f.mode, size |-> f.size]

\* TarFile.gettarinfo: the entry is named by arcname with os.sep turned
\* into "/", and carries the file's own mode and size
TarInfo(f, arcname) == [name |-> ReplaceSep(StrPath(arcname)), mode |-> f.mode, size |-> f.size]

\* the mode forced for what lies in a directory named bin
DataMode_BinSegment(f, arcname) ==
    IF /\ PathSuffix(f.path) \in {Lit(<<".","s","h">>), <<>>}
       /\ \E j \in 1..(Len(arcname) - 1) : arcname[j] = SEG_bin
    THEN MODE_755
    ELSE f.mode

\* lines 87-88: the mode a data entry is stored with
DataMode(f, arcname) ==
    IF /\ PathSuffix(f.path) \in {Lit(<<".","s","h">>), <<>>}
       /\ Contains(StrPath(arcname), Lit(<<"b","i","n","/">>))
    THEN MODE_755
    ELSE f.mode

NoTar == [state |-> "none", entries |-> <<>>, mtime |-> 0, fname |-> <<>>]

\* time.time() never runs backwards
ClockReads == now..MaxClock

\* four bytes, least significant first
LE32(n) == [k \in 1..4 |-> (n \div (256 ^ (k - 1))) % 256]

\* the gzip header tarfile writes when it opens a "w:gz" archive: magic,
\* deflate, FNAME flag, the time of the open, level 9, unknown OS, and the
\* file name without .gz
GzipHeader(fname, mtime) ==
    <<31, 139, 8, 8>> \o LE32(mtime) \o <<2, 255>> \o fname \o <<0>>

RECURSIVE EntriesSize(_)
EntriesSize(es) ==
    IF Len(es) = 0 THEN 0
    ELSE Len(es[1].name) + es[1].size + EntriesSize(Tail(es))

\* the bytes of a closed .tar.gz: the gzip header, then the compressed
\* stream of the entries and the trailer; the length of the stream is fixed
\* by the entries (the figure stands for what the gzip library produces)
TarGzBytes(tar) ==
    [head |-> GzipHeader(tar.fname, tar.mtime),
     rest |-> Nat2Big(8 + EntriesSize(tar.entries)),
     of   |-> tar.entries]

InitLocals ==
    /\ temp = "none"
    /\ control_tar = NoTar
    /\ data_tar = NoTar
    /\ todo = {}
    /\ subdir = 0
    /\ debian_binary = Bytes(<<>>)
    /\ control_data = Bytes(<<>>)
    /\ data_data = Bytes(<<>>)
    /\ ret = "none"

(* -------------------- inputs of create_ar_archive ---------------------- *)

NAME_SHORT == Lit(<<"d","e","b","i","a","n","-","b","i","n","a","r","y">>)

NAME_16 == Lit(<<"e","x","a","c","t","l","y","-","1","6","-","b","y","t","e","s">>)

NAME_LONG == Lit(<<"t","h","i","s","-","n","a","m","e","-","i","s","-",
                   "d","e","f","i","n","i","t","e","l","y","-",
                   "t","o","o","-","l","o","n","g">>)

\* a name with a code point outside ASCII (e-acute)
NAME_NONASCII == Lit(<<"c","a","f">>) \o <<233>>

MemberNames == {NAME_SHORT, NAME_16, NAME_LONG, NAME_NONASCII}

\* n filler bytes after the spelled-out bytes s
Filled(s, n) == [head |-> s, rest |-> n, of |-> <<>>]

Payloads ==
    { Bytes(<<>>),
      Bytes(Lit(<<"2",".","0","\n">>)),
      Bytes(<<65>>),
      Filled(<<>>, Big(9, 999999999)),
      Filled(<<>>, Big(10, 0)) }

Members == {<<n, d>> : n \in MemberNames, d \in Payloads}

RECURSIVE ListsUpTo(_, _)
ListsUpTo(S, n) ==
    IF n = 0 THEN {<<>>}
    ELSE LET shorter == ListsUpTo(S, n - 1)
         IN  shorter \cup {Append(l, m) : l \in {x \in shorter : Len(x) = n - 1}, m \in S}

\* one member with a payload of every length up to MaxLen
SizedLists == {<< <<NAME_SHORT, Filled(<<>>, Nat2Big(n))>> >> : n \in 0..MaxLen}

MemberLists == ListsUpTo(Members, MaxMembers) \cup SizedLists

(* ------------------- create_ar_archive, step by step ------------------- *)

\* the loop visiting the list back to front
ArMembers_Reversed(fs) == [k \in 1..Len(fs) |-> fs[Len(fs) + 1 - k]]

\* line 20: the loop visits the list as given, front to back
ArMembers(fs) == fs

\* a caller outside this module calls create_ar_archive(output_path, files)
CallCreateArArchive ==
    /\ pc = "idle"
    /\ \E fs \in MemberLists : files' = fs
    /\ caller' = "direct"
    /\ out0' = out
    /\ pc' = "ar_open"
    /\ UNCHANGED <<i, out, raised, log>>
    /\ UNCHANGED debVars
    /\ UNCHANGED xVars

\* the file opened for appending, what was there kept
ArOpen_Append ==
    /\ pc = "ar_open"
    /\ out' = [exists |-> TRUE, chunks |-> out.chunks]
    /\ log' = Append(log, "dest_open")
    /\ pc' = "ar_magic"
    /\ UNCHANGED <<caller, files, i, out0, raised>>
    /\ UNCHANGED debVars
    /\ disk' = [exists |-> TRUE, chunks |-> out.chunks]
    /\ UNCHANGED xNoDisk

\* line 16: open(output_path, 'wb') creates the file or truncates it
ArOpen ==
    /\ pc = "ar_open"
    /\ out' = [exists |-> TRUE, chunks |-> <<>>]
    /\ log' = Append(log, "dest_open")
    /\ pc' = "ar_magic"
    /\ UNCHANGED <<caller, files, i, out0, raised>>
    /\ UNCHANGED debVars
    /\ disk' = [exists |-> TRUE, chunks |-> <<>>]
    /\ UNCHANGED xNoDisk

\* line 18
ArWriteMagic ==
    /\ pc = "ar_magic"
    /\ out' = Write(out, Bytes(AR_MAGIC))
    /\ i' = 1
    /\ pc' = "ar_next"
    /\ UNCHANGED <<caller, files, out0, raised, log>>
    /\ UNCHANGED debVars
    /\ UNCHANGED xVars

\* lines 20-40: the next member's name is encoded and its header written;
\* a name that is not ASCII raises, and the with block closes the file
ArWriteHeader ==
    /\ pc = "ar_next"
    /\ i <= Len(files)
    /\ LET file_path == ArMembers(files)[i][1]
           data      == ArMembers(files)[i][2]
       IN  IF IsAscii(file_path)
           THEN /\ out' = Write(out, Bytes(ArHeader(file_path, data)))
                /\ pc' = "ar_data"
                /\ UNCHANGED <<raised, log, disk>>
           ELSE /\ raised' = "UnicodeEncodeError"
                /\ log' = Append(log, "dest_closed")
                /\ pc' = IF caller = "deb" THEN "deb_except" ELSE "done"
                /\ out' = Flush(disk, out)
                /\ disk' = Flush(disk, out)
    /\ UNCHANGED <<caller, files, i, out0>>
    /\ UNCHANGED debVars
    /\ UNCHANGED xNoDisk

\* line 43
ArWriteData ==
    /\ pc = "ar_data"
    /\ out' = Write(out, ArMembers(files)[i][2])
    /\ pc' = "ar_pad"
    /\ UNCHANGED <<caller, files, i, out0, raised, log>>
    /\ UNCHANGED debVars
    /\ UNCHANGED xVars

\* lines 46-47, and back to the head of the loop
ArPad ==
    /\ pc = "ar_pad"
    /\ out' = IF NeedsPad(ArMembers(files)[i][2]) THEN Write(out, Bytes(<<10>>)) ELSE out
    /\ i' = i + 1
    /\ pc' = "ar_next"
    /\ UNCHANGED <<caller, files, out0, raised, log>>
    /\ UNCHANGED debVars
    /\ UNCHANGED xVars

\* the loop is over: the with block closes the file and the function returns
ArReturn ==
    /\ pc = "ar_next"
    /\ i > Len(files)
    /\ log' = Append(log, "dest_closed")
    /\ pc' = IF caller = "deb" THEN "deb_created" ELSE "done"
    /\ out' = Flush(disk, out)
    /\ disk' = Flush(disk, out)
    /\ UNCHANGED <<caller, files, i, out0, raised>>
    /\ UNCHANGED debVars
    /\ UNCHANGED xNoDisk

ArSteps ==
    \/ ArOpen
    \/ ArWriteMagic
    \/ ArWriteHeader
    \/ ArWriteData
    \/ ArPad
    \/ ArReturn

(* ------------------------ LinuxPackageCreator -------------------------- *)

APP_NAME == Lit(<<"c","o","m","p","u","t","e","r","-","u","s","e","-","a","g","e","n","t">>)

VERSION == Lit(<<"1",".","0",".","0">>)

\* create_linux_package.py lines 18-23: the attributes __init__ sets
InitMeta == [app_name |-> APP_NAME, version |-> VERSION]

\* DEBIAN/control has not been written by create_control_file
NoControlText == [written |-> FALSE, text |-> Bytes(<<>>)]

\* there was no invocation before this one
NoPrev == [valid |-> FALSE, ret |-> "none", out |-> NoFile,
           control |-> NoTar, data |-> NoTar, staging |-> NoStaging]

\* there is no second build
NoBuild == [pc |-> "none"]

\* build_deb_package has not been called; the process is where the
\* creator was constructed (create_linux_package.py line 19)
InitB ==
    /\ bpc = "idle"
    /\ cwd = "project"
    /\ cmd = 0
    /\ tried = <<>>
    /\ success = FALSE
    /\ made = {}
    /\ copied = {}
    /\ bret = "none"

\* one build, run once, by itself
InitX ==
    /\ InitB
    /\ now = 0
    /\ tmp_used = {}
    /\ temp_name = 0
    /\ disk = out
    /\ meta = InitMeta
    /\ control_text = NoControlText
    /\ prev = NoPrev
    /\ runs = 1
    /\ other = NoBuild
    /\ same_cwd = TRUE
    /\ overlap = FALSE

InitAr ==
    /\ pc = "idle"
    /\ caller = "none"
    /\ files = <<>>
    /\ i = 0
    /\ out \in {NoFile, OldFile}
    /\ out0 = out
    /\ raised = "none"
    /\ log = <<>>
    /\ staging = NoStaging
    /\ sep = 47
    /\ InitLocals
    /\ InitX

NextAr ==
    \/ CallCreateArArchive
    \/ ArSteps

SpecAr == InitAr /\ [][NextAr]_vars


(* ------------------- create_deb_package, step by step ------------------ *)

DATA_SUBDIRS == <<SEG_usr, SEG_etc>>

\* the format version written without its newline
DEBIAN_BINARY_NoNewline == Lit(<<"2",".","0">>)

\* line 65
DEBIAN_BINARY == Lit(<<"2",".","0","\n">>)

\* the tar files outliving the temporary directory
Removed_Kept(tar) == tar

\* the temporary directory goes, and the tar files in it with it
Removed(tar) == IF tar.state = "none" THEN tar ELSE [tar EXCEPT !.state = "removed"]

CallCreateDebPackage ==
    /\ pc = "idle"
    /\ out0' = out
    /\ pc' = "deb_check"
    /\ UNCHANGED <<caller, files, i, out, raised, log>>
    /\ UNCHANGED debVars
    /\ UNCHANGED xVars

\* the build going on without looking for the staging directory
DebCheckDir_NoCheck ==
    /\ pc = "deb_check"
    /\ IF TRUE
       THEN /\ pc' = "deb_mktemp"
            /\ UNCHANGED ret
       ELSE /\ pc' = "done"
            /\ ret' = "False"
    /\ UNCHANGED <<caller, files, i, out, out0, raised, log>>
    /\ UNCHANGED <<staging, sep, temp, control_tar, data_tar, todo, subdir,
                   debian_binary, control_data, data_data>>
    /\ UNCHANGED xVars

\* lines 53-58: without the staging directory the build returns False
DebCheckDir ==
    /\ pc = "deb_check"
    /\ IF staging.exists
       THEN /\ pc' = "deb_mktemp"
            /\ UNCHANGED ret
       ELSE /\ pc' = "done"
            /\ ret' = "False"
    /\ UNCHANGED <<caller, files, i, out, out0, raised, log>>
    /\ UNCHANGED <<staging, sep, temp, control_tar, data_tar, todo, subdir,
                   debian_binary, control_data, data_data>>
    /\ UNCHANGED xVars

TempNames == 1..MaxTempNames

\* mkdtemp drawing the same name every time
MkdtempNames_Fixed == {1}

\* line 61: mkdtemp creates a directory under a name that is not taken
MkdtempNames == TempNames \ tmp_used

\* the destination opened for writing before anything is built
DebMkTemp_OpensOutput ==
    /\ pc = "deb_mktemp"
    /\ temp' = "exists"
    /\ \E n \in MkdtempNames : temp_name' = n /\ tmp_used' = tmp_used \cup {n}
    /\ debian_binary' = Bytes(DEBIAN_BINARY)
    /\ out' = [exists |-> TRUE, chunks |-> <<>>]
    /\ log' = Append(log, "debian_binary")
    /\ pc' = "control_open"
    /\ UNCHANGED <<caller, files, i, out0, raised>>
    /\ UNCHANGED <<staging, sep, control_tar, data_tar, todo, subdir,
                   control_data, data_data, ret>>
    /\ UNCHANGED xNoTemp

\* lines 61-65: the temporary directory and the debian-binary content
DebMkTemp ==
    /\ pc = "deb_mktemp"
    /\ temp' = "exists"
    /\ \E n \in MkdtempNames : temp_name' = n /\ tmp_used' = tmp_used \cup {n}
    /\ debian_binary' = Bytes(DEBIAN_BINARY)
    /\ log' = Append(log, "debian_binary")
    /\ pc' = "control_open"
    /\ UNCHANGED <<caller, files, i, out, out0, raised>>
    /\ UNCHANGED <<staging, sep, control_tar, data_tar, todo, subdir,
                   control_data, data_data, ret>>
    /\ UNCHANGED xNoTemp

\* lines 68-71: control.tar.gz is opened and the walk of DEBIAN starts
DebOpenControlTar ==
    /\ pc = "control_open"
    /\ \E t \in ClockReads :
         /\ now' = t
         /\ control_tar' = [state |-> "open", entries |-> <<>>, mtime |-> t,
                            fname |-> Lit(<<"c","o","n","t","r","o","l",".","t","a","r">>)]
    /\ todo' = WalkFiles(SEG_DEBIAN)
    /\ log' = Append(log, "control_open")
    /\ pc' = "control_walk"
    /\ UNCHANGED <<caller, files, i, out, out0, raised>>
    /\ UNCHANGED <<staging, sep, temp, data_tar, subdir,
                   debian_binary, control_data, data_data, ret>>
    /\ UNCHANGED xNoClock

\* lines 71-74: the walk yields its next file, in whatever order the
\* directory listing has, and the file is added under its path relative to
\* DEBIAN; a file that cannot be read raises and the tar is abandoned
DebAddControl ==
    /\ pc = "control_walk"
    /\ \E file_path \in todo :
         IF file_path \notin staging.unreadable
         THEN /\ control_tar' = [control_tar EXCEPT
                    !.entries = Append(@, TarInfo(file_path, RelativeTo(file_path.path, 1)))]
              /\ todo' = todo \ {file_path}
              /\ UNCHANGED <<pc, raised>>
         ELSE /\ control_tar' = [control_tar EXCEPT !.state = "aborted"]
              /\ raised' = "PermissionError"
              /\ pc' = "deb_except"
              /\ UNCHANGED todo
    /\ UNCHANGED <<caller, files, i, out, out0, log>>
    /\ UNCHANGED <<staging, sep, temp, data_tar, subdir,
                   debian_binary, control_data, data_data, ret>>
    /\ UNCHANGED xVars

\* the walk is over: the with block finishes control.tar.gz and closes it
DebCloseControlTar ==
    /\ pc = "control_walk"
    /\ todo = {}
    /\ control_tar' = [control_tar EXCEPT !.state = "closed"]
    /\ log' = Append(log, "control_closed")
    /\ pc' = "data_open"
    /\ UNCHANGED <<caller, files, i, out, out0, raised>>
    /\ UNCHANGED <<staging, sep, temp, data_tar, todo, subdir,
                   debian_binary, control_data, data_data, ret>>
    /\ UNCHANGED xVars

\* lines 77-78
DebOpenDataTar ==
    /\ pc = "data_open"
    /\ \E t \in ClockReads :
         /\ now' = t
         /\ data_tar' = [state |-> "open", entries |-> <<>>, mtime |-> t,
                         fname |-> Lit(<<"d","a","t","a",".","t","a","r">>)]
    /\ subdir' = 1
    /\ log' = Append(log, "data_open")
    /\ pc' = "data_subdir"
    /\ UNCHANGED <<caller, files, i, out, out0, raised>>
    /\ UNCHANGED <<staging, sep, temp, control_tar, todo,
                   debian_binary, control_data, data_data, ret>>
    /\ UNCHANGED xNoClock

\* lines 79-82: the next of usr and etc; a missing one is passed over
DebEnterSubdir ==
    /\ pc = "data_subdir"
    /\ subdir <= Len(DATA_SUBDIRS)
    /\ IF SubdirExists(DATA_SUBDIRS[subdir])
       THEN /\ todo' = WalkFiles(DATA_SUBDIRS[subdir])
            /\ pc' = "data_walk"
            /\ UNCHANGED subdir
       ELSE /\ subdir' = subdir + 1
            /\ UNCHANGED <<todo, pc>>
    /\ UNCHANGED <<caller, files, i, out, out0, raised, log>>
    /\ UNCHANGED <<staging, sep, temp, control_tar, data_tar,
                   debian_binary, control_data, data_data, ret>>
    /\ UNCHANGED xVars

\* lines 83-90: the walk yields its next file; it is added under its path
\* relative to the staging directory, with the mode of lines 87-88
DebAddData ==
    /\ pc = "data_walk"
    /\ \E file_path \in todo :
         LET arcname == RelativeTo(file_path.path, 0)
             tarinfo == [TarInfo(file_path, arcname) EXCEPT !.mode = DataMode(file_path, arcname)]
         IN  IF file_path \notin staging.unreadable
             THEN /\ data_tar' = [data_tar EXCEPT !.entries = Append(@, tarinfo)]
                  /\ todo' = todo \ {file_path}
                  /\ UNCHANGED <<pc, raised>>
             ELSE /\ data_tar' = [data_tar EXCEPT !.state = "aborted"]
                  /\ raised' = "PermissionError"
                  /\ pc' = "deb_except"
                  /\ UNCHANGED todo
    /\ UNCHANGED <<caller, files, i, out, out0, log>>
    /\ UNCHANGED <<staging, sep, temp, control_tar, subdir,
                   debian_binary, control_data, data_data, ret>>
    /\ UNCHANGED xVars

\* the walk of one sub-directory is over
DebLeaveSubdir ==
    /\ pc = "data_walk"
    /\ todo = {}
    /\ subdir' = subdir + 1
    /\ pc' = "data_subdir"
    /\ UNCHANGED <<caller, files, i, out, out0, raised, log>>
    /\ UNCHANGED <<staging, sep, temp, control_tar, data_tar, todo,
                   debian_binary, control_data, data_data, ret>>
    /\ UNCHANGED xVars

\* the rest of the build run inside the with block of data.tar.gz, which
\* is then still open when it is read and the destination is written
DebCloseDataTar_StillOpen ==
    /\ pc = "data_subdir"
    /\ subdir > Len(DATA_SUBDIRS)
    /\ pc' = "read_tars"
    /\ UNCHANGED <<caller, files, i, out, out0, raised, log>>
    /\ UNCHANGED debVars
    /\ UNCHANGED xVars

\* both sub-directories are done: the with block finishes data.tar.gz
DebCloseDataTar ==
    /\ pc = "data_subdir"
    /\ subdir > Len(DATA_SUBDIRS)
    /\ data_tar' = [data_tar EXCEPT !.state = "closed"]
    /\ log' = Append(log, "data_closed")
    /\ pc' = "read_tars"
    /\ UNCHANGED <<caller, files, i, out, out0, raised>>
    /\ UNCHANGED <<staging, sep, temp, control_tar, todo, subdir,
                   debian_binary, control_data, data_data, ret>>
    /\ UNCHANGED xVars

\* lines 93-97
DebReadTars ==
    /\ pc = "read_tars"
    /\ control_data' = TarGzBytes(control_tar)
    /\ data_data' = TarGzBytes(data_tar)
    /\ pc' = "deb_call_ar"
    /\ UNCHANGED <<caller, files, i, out, out0, raised, log>>
    /\ UNCHANGED <<staging, sep, temp, control_tar, data_tar, todo, subdir,
                   debian_binary, ret>>
    /\ UNCHANGED xVars

\* the member list with control.tar.gz put first
DebFiles_ControlFirst ==
    << <<Lit(<<"c","o","n","t","r","o","l",".","t","a","r",".","g","z">>), control_data>>,
       <<Lit(<<"d","e","b","i","a","n","-","b","i","n","a","r","y">>), debian_binary>>,
       <<Lit(<<"d","a","t","a",".","t","a","r",".","g","z">>), data_data>> >>

\* lines 102-106
DebFiles ==
    << <<Lit(<<"d","e","b","i","a","n","-","b","i","n","a","r","y">>), debian_binary>>,
       <<Lit(<<"c","o","n","t","r","o","l",".","t","a","r",".","g","z">>), control_data>>,
       <<Lit(<<"d","a","t","a",".","t","a","r",".","g","z">>), data_data>> >>

\* lines 100-108: create_ar_archive(deb_path, files)
DebCallAr ==
    /\ pc = "deb_call_ar"
    /\ files' = DebFiles
    /\ caller' = "deb"
    /\ log' = Append(log, "ar_call")
    /\ pc' = "ar_open"
    /\ UNCHANGED <<i, out, out0, raised>>
    /\ UNCHANGED debVars
    /\ UNCHANGED xVars

\* return True with the temporary directory left behind
DebReturnTrue_KeepsTemp ==
    /\ pc = "deb_created"
    /\ UNCHANGED <<temp, control_tar, data_tar>>
    /\ ret' = "True"
    /\ pc' = "done"
    /\ UNCHANGED <<caller, files, i, out, out0, raised, log>>
    /\ UNCHANGED <<staging, sep, todo, subdir, debian_binary, control_data, data_data>>
    /\ UNCHANGED <<tmp_used, temp_name>>
    /\ UNCHANGED xNoTemp

\* lines 110-113: return True leaves the with block, which removes the
\* temporary directory
DebReturnTrue ==
    /\ pc = "deb_created"
    /\ temp' = "removed"
    /\ control_tar' = Removed(control_tar)
    /\ data_tar' = Removed(data_tar)
    /\ ret' = "True"
    /\ pc' = "done"
    /\ UNCHANGED <<caller, files, i, out, out0, raised, log>>
    /\ UNCHANGED <<staging, sep, todo, subdir, debian_binary, control_data, data_data>>
    /\ tmp_used' = tmp_used \ {temp_name}
    /\ temp_name' = 0
    /\ UNCHANGED xNoTemp

\* the handler reporting the error and carrying on with the tar files as
\* they are
DebExcept_Continue ==
    /\ pc = "deb_except"
    /\ raised' = "none"
    /\ pc' = "read_tars"
    /\ UNCHANGED <<caller, files, i, out, out0, log>>
    /\ UNCHANGED debVars
    /\ UNCHANGED xVars

\* an exception leaves the with block, which removes the temporary
\* directory, and lines 115-117 catch it and return False
DebExcept ==
    /\ pc = "deb_except"
    /\ temp' = "removed"
    /\ control_tar' = Removed(control_tar)
    /\ data_tar' = Removed(data_tar)
    /\ raised' = "none"
    /\ ret' = "False"
    /\ pc' = "done"
    /\ UNCHANGED <<caller, files, i, out, out0, log>>
    /\ UNCHANGED <<staging, sep, todo, subdir, debian_binary, control_data, data_data>>
    /\ tmp_used' = tmp_used \ {temp_name}
    /\ temp_name' = 0
    /\ UNCHANGED xNoTemp

DebSteps ==
    \/ DebCheckDir
    \/ DebMkTemp
    \/ DebOpenControlTar
    \/ DebAddControl
    \/ DebCloseControlTar
    \/ DebOpenDataTar
    \/ DebEnterSubdir
    \/ DebAddData
    \/ DebLeaveSubdir
    \/ DebCloseDataTar
    \/ DebReadTars
    \/ DebCallAr
    \/ DebReturnTrue
    \/ DebExcept

Init ==
    /\ pc = "idle"
    /\ caller = "none"
    /\ files = <<>>
    /\ i = 0
    /\ out \in {NoFile, OldFile}
    /\ out0 = out
    /\ raised = "none"
    /\ log = <<>>
    /\ staging \in Stagings
    /\ sep \in {47, 92}
    /\ InitLocals
    /\ InitX

Next ==
    \/ CallCreateDebPackage
    \/ DebSteps
    \/ ArSteps

Spec == Init /\ [][Next]_vars

(* --------------------- the script run again and again ------------------ *)

\* the trees the script is run on twice
RerunStagings ==
    { s \in Stagings :
        \A f \in s.files :
            f.path[Len(f.path)] \in { Lit(<<"c","o","n","t","r","o","l">>),
                                      Lit(<<"p","o","s","t","i","n","s","t">>),
                                      Lit(<<"t","o","o","l">>) } }

\* lines 119-120: the script is started again; the new process has nothing
\* of the old one but the files on disk and a clock that has moved on
Rerun ==
    /\ pc = "done"
    /\ runs < MaxRuns
    /\ prev' = [valid |-> TRUE, ret |-> ret, out |-> out,
                control |-> control_tar, data |-> data_tar, staging |-> staging]
    /\ runs' = runs + 1
    /\ pc' = "idle"
    /\ caller' = "none"
    /\ files' = <<>>
    /\ i' = 0
    /\ out0' = out
    /\ raised' = "none"
    /\ log' = <<>>
    /\ temp' = "none"
    /\ control_tar' = NoTar
    /\ data_tar' = NoTar
    /\ todo' = {}
    /\ subdir' = 0
    /\ debian_binary' = Bytes(<<>>)
    /\ control_data' = Bytes(<<>>)
    /\ data_data' = Bytes(<<>>)
    /\ ret' = "none"
    /\ UNCHANGED <<out, staging, sep>>
    /\ UNCHANGED <<now, tmp_used, temp_name, disk, meta, control_text,
                   other, same_cwd, overlap, bVars>>

InitRerun ==
    /\ Init
    /\ staging \in RerunStagings
    /\ sep = 47

NextRerun ==
    \/ Next
    \/ Rerun

SpecRerun == InitRerun /\ [][NextRerun]_vars

(* ------------- create_control_file, and a build of what it wrote ------- *)

\* Python None, which is no string
NONE == <<-1>>

\* what the caller may have assigned to an attribute that __init__ set to v
AttrValues(v) == {v, <<>>, NONE, v \o Lit(<<"\n","x">>)}

Metas == [app_name : AttrValues(APP_NAME), version : AttrValues(VERSION)]

\* f"{v}"
PyFormat(v) == IF v = NONE THEN <<78>> \o Lit(<<"o","n","e">>) ELSE v

\* characters of control_content from "Section: utils" to the end
CONTROL_REST == 750

\* create_linux_package.py lines 60-79: the f-string, its first two lines
\* character by character and the rest, which is fixed, by its length
ControlContent(m) ==
    Filled(<<80>> \o Lit(<<"a","c","k","a","g","e">>) \o <<58, 32>>
               \o PyFormat(m.app_name) \o <<10>>
               \o <<86>> \o Lit(<<"e","r","s","i","o","n">>) \o <<58, 32>>
               \o PyFormat(m.version) \o <<10>>,
           Nat2Big(CONTROL_REST))

CONTROL_PATH == <<SEG_DEBIAN, Lit(<<"c","o","n","t","r","o","l">>)>>

\* the attributes are plain attributes: code that uses the class assigns
\* them, between two calls of its methods
SetAttributes ==
    /\ pc = "idle"
    /\ bpc = "idle"
    /\ ~control_text.written
    /\ meta = InitMeta
    /\ meta' \in Metas \ {InitMeta}
    /\ UNCHANGED <<arVars, debVars>>
    /\ UNCHANGED <<now, tmp_used, temp_name, disk, control_text, prev, runs,
                   other, same_cwd, overlap, bVars>>

\* create_linux_package.py lines 56-84: the text is formatted and written
\* to DEBIAN/control as it comes
CreateControlFile ==
    /\ pc = "idle"
    /\ staging.exists
    /\ ~control_text.written
    /\ LET control_content == ControlContent(meta)
       IN  /\ control_text' = [written |-> TRUE, text |-> control_content]
           /\ staging' =
                [staging EXCEPT !.files =
                    {f \in @ : f.path # CONTROL_PATH} \cup
                    {StagedFile(CONTROL_PATH, MODE_644,
                                Len(control_content.head) + CONTROL_REST)}]
    /\ UNCHANGED arVars
    /\ UNCHANGED <<sep, temp, control_tar, data_tar, todo, subdir,
                   debian_binary, control_data, data_data, ret>>
    /\ UNCHANGED <<now, tmp_used, temp_name, disk, meta, prev, runs,
                   other, same_cwd, overlap, bVars>>

\* the staging directory as create_debian_structure leaves it, and with a
\* launcher in usr/bin that can or cannot be read
CtlStagings ==
    { s \in Stagings :
        /\ s.exists
        /\ \A f \in s.files : f.path = <<SEG_usr, SEG_bin, Lit(<<"t","o","o","l">>)>> }

InitCtl ==
    /\ Init
    /\ staging \in CtlStagings
    /\ sep = 47

NextCtl ==
    \/ SetAttributes
    \/ CreateControlFile
    \/ Next

SpecCtl == InitCtl /\ [][NextCtl]_vars

(* ------------------------ two builds at a time ------------------------- *)

\* the running build: its locals, and the tree and the output file of the
\* directory it runs in
Running ==
    [pc |-> pc,
     caller |-> caller,
     files |-> files,
     i |-> i,
     out |-> out,
     out0 |-> out0,
     raised |-> raised,
     log |-> log,
     temp |-> temp,
     temp_name |-> temp_name,
     control_tar |-> control_tar,
     data_tar |-> data_tar,
     todo |-> todo,
     subdir |-> subdir,
     debian_binary |-> debian_binary,
     control_data |-> control_data,
     data_data |-> data_data,
     ret |-> ret,
     staging |-> staging,
     disk |-> disk]

\* a build that has not started, in a directory with tree st
IdleBuild(st) ==
    [pc |-> "idle", caller |-> "none", files |-> <<>>, i |-> 0,
     out |-> NoFile, out0 |-> NoFile, raised |-> "none", log |-> <<>>,
     temp |-> "none", temp_name |-> 0, control_tar |-> NoTar, data_tar |-> NoTar,
     todo |-> {}, subdir |-> 0, debian_binary |-> Bytes(<<>>),
     control_data |-> Bytes(<<>>), data_data |-> Bytes(<<>>), ret |-> "none",
     staging |-> st, disk |-> NoFile]

\* between line 16 and the end of the with block the build holds the
\* output file open
HoldsOutputOpen(p) == p \in {"ar_magic", "ar_next", "ar_data", "ar_pad"}

\* the scheduler suspends the running build and resumes the other one:
\* the locals change hands, the tree and the output file too when the
\* builds run in different directories; a build that does not hold the
\* output open sees the file that is on disk
Switch ==
    /\ other.pc # "none"
    /\ other' = [Running EXCEPT
                    !.staging = IF same_cwd THEN NoStaging ELSE staging,
                    !.disk = IF same_cwd THEN NoFile ELSE disk]
    /\ pc' = other.pc
    /\ caller' = other.caller
    /\ files' = other.files
    /\ i' = other.i
    /\ out0' = other.out0
    /\ raised' = other.raised
    /\ log' = other.log
    /\ temp' = other.temp
    /\ temp_name' = other.temp_name
    /\ control_tar' = other.control_tar
    /\ data_tar' = other.data_tar
    /\ todo' = other.todo
    /\ subdir' = other.subdir
    /\ debian_binary' = other.debian_binary
    /\ control_data' = other.control_data
    /\ data_data' = other.data_data
    /\ ret' = other.ret
    /\ staging' = IF same_cwd THEN staging ELSE other.staging
    /\ disk' = IF same_cwd THEN disk ELSE other.disk
    /\ out' = IF same_cwd /\ ~HoldsOutputOpen(other.pc) THEN disk ELSE other.out
    /\ overlap' = (overlap \/ (temp = "exists" /\ other.temp = "exists"))
    /\ UNCHANGED <<sep, now, tmp_used, meta, control_text, prev, runs, same_cwd>>
    /\ UNCHANGED bVars

\* the trees two builds are run on at a time: a control file and a
\* launcher that can or cannot be read
ParStagings ==
    { s \in Stagings :
        /\ s.files = { f \in FileUniverse :
                          f.path \in {CONTROL_PATH,
                                      <<SEG_usr, SEG_bin, Lit(<<"t","o","o","l">>)>>} }
        /\ \A f \in s.unreadable : f.path[1] = SEG_usr }

InitPar ==
    /\ pc = "idle"
    /\ caller = "none"
    /\ files = <<>>
    /\ i = 0
    /\ out = NoFile
    /\ out0 = out
    /\ raised = "none"
    /\ log = <<>>
    /\ staging \in ParStagings
    /\ sep = 47
    /\ InitLocals
    /\ now = 0
    /\ tmp_used = {}
    /\ temp_name = 0
    /\ disk = out
    /\ meta = InitMeta
    /\ control_text = NoControlText
    /\ prev = NoPrev
    /\ runs = 1
    /\ same_cwd \in BOOLEAN
    /\ other \in {IdleBuild(st) : st \in IF same_cwd THEN {NoStaging} ELSE ParStagings}
    /\ overlap = FALSE
    /\ InitB

NextPar ==
    \/ Next
    \/ Switch

SpecPar == InitPar /\ [][NextPar]_vars

(* ------------- LinuxPackageCreator.build_deb_package ------------------- *)

\* create_linux_package.py lines 592-595
build_commands == <<"fakeroot dpkg-deb", "dpkg-deb">>

\* how subprocess.run(cmd, check=True) can end: exit status 0,
\* CalledProcessError, FileNotFoundError, or another OSError (a command
\* that is there and cannot be executed)
Outcomes == {"ok", "nonzero", "notfound", "oserror"}

\* line 589: f"{self.app_name}_{self.version}_amd64.deb"
DebFilename(m) ==
    PyFormat(m.app_name) \o <<95>> \o PyFormat(m.version)
        \o Lit(<<"_","a","m","d","6","4",".","d","e","b">>)

\* line 611: f"{self.app_name}_{self.version}_linux.tar.gz"
TarballName(m) ==
    PyFormat(m.app_name) \o <<95>> \o PyFormat(m.version)
        \o Lit(<<"_","l","i","n","u","x",".","t","a","r",".","g","z">>)

\* line 619
COPY_EXTS == << Lit(<<".","d","e","b">>),
               Lit(<<"_","l","i","n","u","x",".","t","a","r",".","g","z">>) >>

\* line 620: f"{self.app_name}_{self.version}_amd64{ext}"
PackageFile(m, ext) ==
    PyFormat(m.app_name) \o <<95>> \o PyFormat(m.version)
        \o Lit(<<"_","a","m","d","6","4">>) \o ext

\* lines 580-584
BuildCall ==
    /\ bpc = "idle"
    /\ bpc' = "chdir"
    /\ UNCHANGED <<cwd, cmd, tried, success, made, copied, bret>>
    /\ UNCHANGED <<arVars, debVars, pVars>>

\* lines 586-597: os.chdir(self.package_dir) raises when the directory is
\* not there (clean_build_dirs makes it together with the staging
\* directory, lines 32-33)
BuildChdir ==
    /\ bpc = "chdir"
    /\ IF staging.exists
       THEN /\ cwd' = "package"
            /\ cmd' = 1
            /\ success' = FALSE
            /\ bpc' = "try"
       ELSE /\ bpc' = "except"
            /\ UNCHANGED <<cwd, cmd, success>>
    /\ UNCHANGED <<tried, made, copied, bret>>
    /\ UNCHANGED <<arVars, debVars, pVars>>

\* the loop going on to the next command after one that succeeded
BuildTry_NoBreak ==
    /\ bpc = "try"
    /\ \E r \in Outcomes :
         /\ tried' = Append(tried, [cmd |-> build_commands[cmd], result |-> r])
         /\ IF r = "ok"
            THEN /\ success' = TRUE
                 /\ made' = made \cup {DebFilename(meta)}
                 /\ cmd' = cmd + 1
                 /\ bpc' = IF cmd = Len(build_commands) THEN "after_loop" ELSE "try"
            ELSE IF r = "oserror"
            THEN /\ bpc' = "except"
                 /\ UNCHANGED <<success, made, cmd>>
            ELSE /\ cmd' = cmd + 1
                 /\ bpc' = IF cmd = Len(build_commands) THEN "after_loop" ELSE "try"
                 /\ UNCHANGED <<success, made>>
    /\ UNCHANGED <<cwd, copied, bret>>
    /\ UNCHANGED <<arVars, debVars, pVars>>

\* lines 598-605: one turn of the loop: the command is run; success ends
\* the loop, CalledProcessError and FileNotFoundError go on to the next
\* command, any other exception leaves the try block of line 584
BuildTry ==
    /\ bpc = "try"
    /\ \E r \in Outcomes :
         /\ tried' = Append(tried, [cmd |-> build_commands[cmd], result |-> r])
         /\ IF r = "ok"
            THEN /\ success' = TRUE
                 /\ made' = made \cup {DebFilename(meta)}
                 /\ bpc' = "after_loop"
                 /\ UNCHANGED cmd
            ELSE IF r = "oserror"
            THEN /\ bpc' = "except"
                 /\ UNCHANGED <<success, made, cmd>>
            ELSE /\ cmd' = cmd + 1
                 /\ bpc' = IF cmd = Len(build_commands) THEN "after_loop" ELSE "try"
                 /\ UNCHANGED <<success, made>>
    /\ UNCHANGED <<cwd, copied, bret>>
    /\ UNCHANGED <<arVars, debVars, pVars>>

\* lines 607-613: without success the tarball is opened, which creates it,
\* and the staging directory is added to it; a file that cannot be read
\* raises
BuildFallback ==
    /\ bpc = "after_loop"
    /\ IF success
       THEN /\ bpc' = "chdir_back"
            /\ UNCHANGED made
       ELSE /\ made' = made \cup {TarballName(meta)}
            /\ bpc' = IF staging.unreadable # {} THEN "except" ELSE "chdir_back"
    /\ UNCHANGED <<cwd, cmd, tried, success, copied, bret>>
    /\ UNCHANGED <<arVars, debVars, pVars>>

\* line 616
BuildChdirBack ==
    /\ bpc = "chdir_back"
    /\ cwd' = "project"
    /\ bpc' = "copy"
    /\ UNCHANGED <<cmd, tried, success, made, copied, bret>>
    /\ UNCHANGED <<arVars, debVars, pVars>>

\* what shutil.copy2 can do: copy, or raise (a project directory that
\* cannot be written)
CopyOutcomes == {"ok", "oserror"}

\* lines 619-623: each of the two names is copied if a file of that name
\* is in the package directory
BuildCopy ==
    /\ bpc = "copy"
    /\ LET found == {PackageFile(meta, COPY_EXTS[e]) : e \in 1..Len(COPY_EXTS)}
                         \cap made
       IN  \E r \in CopyOutcomes :
             IF found # {} /\ r = "oserror"
             THEN /\ bpc' = "except"
                  /\ UNCHANGED copied
             ELSE /\ copied' = found
                  /\ bpc' = "return"
    /\ UNCHANGED <<cwd, cmd, tried, success, made, bret>>
    /\ UNCHANGED <<arVars, debVars, pVars>>

\* line 629
BuildReturnTrue ==
    /\ bpc = "return"
    /\ bret' = "True"
    /\ bpc' = "returned"
    /\ UNCHANGED <<cwd, cmd, tried, success, made, copied>>
    /\ UNCHANGED <<arVars, debVars, pVars>>

\* lines 625-627
BuildExcept ==
    /\ bpc = "except"
    /\ bret' = "False"
    /\ bpc' = "returned"
    /\ UNCHANGED <<cwd, cmd, tried, success, made, copied>>
    /\ UNCHANGED <<arVars, debVars, pVars>>

\* no package directory, or one with a staged tree whose launcher can or
\* cannot be read
BuildStagings == {NoStaging} \cup ParStagings

InitBuild ==
    /\ Init
    /\ staging \in BuildStagings
    /\ sep = 47
    /\ out = NoFile

NextBuild ==
    \/ SetAttributes
    \/ BuildCall
    \/ BuildChdir
    \/ BuildTry
    \/ BuildFallback
    \/ BuildChdirBack
    \/ BuildCopy
    \/ BuildReturnTrue
    \/ BuildExcept

SpecBuild == InitBuild /\ [][NextBuild]_vars

(* ------------------- reading an ar container back --------------------- *)

\* number of members whose header is in the file
Written == IF pc \in {"ar_data", "ar_pad"} THEN i ELSE IF i = 0 THEN 0 ELSE i - 1

\* number of members whose header, payload and padding are all in the file
Completed == IF i = 0 THEN 0 ELSE i - 1

\* the direct call returned without an exception
ArReturned == pc = "done" /\ caller = "direct" /\ raised = "none"

\* position, among the writes, of the header of member k
RECURSIVE HdrIdx(_, _)
HdrIdx(fs, k) ==
    IF k = 1 THEN 2
    ELSE HdrIdx(fs, k - 1) + 2 + (IF BigOdd(PyLen(fs[k - 1][2])) THEN 1 ELSE 0)

\* the header bytes of member k as they stand in the file
HdrOf(k) == out.chunks[HdrIdx(files, k)].head

\* byte offset at which write number n starts
RECURSIVE OffsetOf(_, _)
OffsetOf(chunks, n) ==
    IF n = 1 THEN Nat2Big(0)
    ELSE BigAdd(OffsetOf(chunks, n - 1), PyLen(chunks[n - 1]))

\* x followed by spaces up to exactly w bytes; nothing fits if x is longer
Field(x, w) == x \o [k \in 1..(w - Len(x)) |-> 32]

RECURSIVE RStrip(_)
RStrip(s) ==
    IF Len(s) > 0 /\ s[Len(s)] = 32 THEN RStrip(SubSeq(s, 1, Len(s) - 1)) ELSE s

RECURSIVE ParseNat(_)
ParseNat(s) ==
    IF Len(s) = 0 THEN 0
    ELSE 10 * ParseNat(SubSeq(s, 1, Len(s) - 1)) + (s[Len(s)] - 48)

\* decimal text to a length
ParseDec(s) ==
    IF Len(s) <= 9 THEN Big(0, ParseNat(s))
    ELSE Big(ParseNat(SubSeq(s, 1, Len(s) - 9)), ParseNat(SubSeq(s, Len(s) - 8, Len(s))))

\* the payload length fits the ten digits of the size field
FitsSizeField(data) == PyLen(data).hi <= 9

(* ------------------------------ claims -------------------------------- *)

\* C2: when create_ar_archive returns, the file is the 8-byte magic at
\* offset 0 and then, member by member, a header of exactly 60 bytes (name
\* 16, timestamp "0" in 12, owner "0" in 6, group "0" in 6, mode "644" in 8,
\* decimal size in 10, end marker 0x60 0x0A) with the raw payload right
\* after it.
C2_ExactLayout ==
    ArReturned =>
        /\ out.chunks[1] = Bytes(<<33, 60, 97, 114, 99, 104, 62, 10>>)
        /\ OffsetOf(out.chunks, 2) = Nat2Big(8)
        /\ \A k \in 1..Len(files) :
             LET h    == HdrOf(k)
                 name == files[k][1]
                 data == files[k][2]
             IN  /\ Len(h) = 60
                 /\ SubSeq(h, 1, 16) = Field(SubSeq(name, 1, IF Len(name) > 16 THEN 16 ELSE Len(name)), 16)
                 /\ SubSeq(h, 17, 28) = Field(<<48>>, 12)
                 /\ SubSeq(h, 29, 34) = Field(<<48>>, 6)
                 /\ SubSeq(h, 35, 40) = Field(<<48>>, 6)
                 /\ SubSeq(h, 41, 48) = Field(<<54, 52, 52>>, 8)
                 /\ ParseDec(RStrip(SubSeq(h, 49, 58))) = PyLen(data)
                 /\ SubSeq(h, 59, 60) = <<96, 10>>
                 /\ out.chunks[HdrIdx(files, k) + 1] = data

\* C3: every member header in the output starts at an even byte offset.
C3_EvenHeaderOffsets ==
    \A k \in 1..Written :
        ~BigOdd(OffsetOf(out.chunks, HdrIdx(files, k)))

\* C4: after a member's payload comes exactly one newline when the payload
\* length is odd and nothing when it is even, and the size field holds the
\* payload length without the padding.
C4_PadOnlyWhenOdd ==
    \A k \in 1..Completed :
        LET data == files[k][2]
            p    == HdrIdx(files, k) + 2
            nxt  == IF BigOdd(PyLen(data)) THEN p + 1 ELSE p
        IN  /\ out.chunks[p - 1] = data
            /\ BigOdd(PyLen(data)) => out.chunks[p] = Bytes(<<10>>)
            /\ IF k < Written
               THEN out.chunks[nxt] = Bytes(ArHeader(files[k + 1][1], files[k + 1][2]))
               ELSE Len(out.chunks) = nxt - 1
            /\ ParseDec(RStrip(SubSeq(HdrOf(k), 49, Len(HdrOf(k)) - 2))) = PyLen(data)

C4_Witness ==
    /\ ArReturned
    /\ Len(files) = 2
    /\ BigOdd(PyLen(files[1][2]))
    /\ ~BigOdd(PyLen(files[2][2]))

\* C5: for a payload of 0 to 10,000 bytes the ten bytes of the size field,
\* spaces stripped and read as a decimal number, are the payload length.
C5_SizeRoundTrip ==
    \A k \in 1..Written :
        LET n == PyLen(files[k][2])
        IN  (n.hi = 0 /\ n.lo <= 10000) =>
                ParseDec(RStrip(SubSeq(HdrOf(k), 49, 58))) = n

C5_Witness ==
    /\ ArReturned
    /\ Len(files) = 1
    /\ PyLen(files[1][2]) = Nat2Big(10000)

\* C6: a member whose length does not fit ten decimal digits makes the call
\* fail with a size-overflow error; no header is emitted for it, and no
\* header is ever longer or shorter than 60 bytes.
C6_OverflowRejected ==
    \A k \in 1..Written :
        /\ FitsSizeField(files[k][2])
        /\ Len(HdrOf(k)) = 60

\* C9: a name of more than 16 bytes is not rejected, its name field is its
\* first 16 bytes; a shorter name is left-justified and space-padded to 16.
C9_NameField ==
    /\ \A k \in 1..Written :
         LET name == files[k][1]
         IN  /\ SubSeq(HdrOf(k), 1, 16) =
                    IF Len(name) > 16 THEN SubSeq(name, 1, 16) ELSE Field(name, 16)
             /\ SubSeq(HdrOf(k), 17, 28) = Field(<<48>>, 12)
    /\ raised # "none" => ~IsAscii(files[i][1])

C9_Witness ==
    /\ ArReturned
    /\ Len(files) >= 1
    /\ Len(files[Len(files)][1]) > 16

\* C10: the k-th header and payload of the output are those of the k-th
\* input member, each member is written once, and members with the same
\* name are all written.
C10_OrderKept ==
    /\ \A k \in 1..Written :
         /\ SubSeq(HdrOf(k), 1, 16) = SubSeq(Field(files[k][1], 16), 1, 16)
         /\ ParseDec(RStrip(SubSeq(HdrOf(k), 49, Len(HdrOf(k)) - 2))) = PyLen(files[k][2])
    /\ \A k \in 1..Completed : out.chunks[HdrIdx(files, k) + 1] = files[k][2]
    /\ ArReturned =>
         /\ Written = Len(files)
         /\ Len(out.chunks) = HdrIdx(files, Len(files) + 1) - 1

C10_Witness ==
    /\ ArReturned
    /\ Len(files) = 2
    /\ files[1][1] = files[2][1]
    /\ files[1][2] # files[2][2]

(* ----------------------- claims on the .deb build ---------------------- *)

\* a write that is a member header: spelled-out bytes ending in 0x60 0x0A
IsHeader(c) ==
    /\ c.rest = Nat2Big(0)
    /\ Len(c.head) >= 60
    /\ SubSeq(c.head, Len(c.head) - 1, Len(c.head)) = <<96, 10>>

\* the member names of the container, in file order
MemberNamesOf(f) ==
    LET hs == SelectSeq(f.chunks, IsHeader)
    IN  [k \in 1..Len(hs) |-> RStrip(SubSeq(hs[k].head, 1, 16))]

Range(s) == {s[k] : k \in 1..Len(s)}

\* C1: a successful create_deb_package leaves a container of exactly three
\* members named debian-binary, control.tar.gz, data.tar.gz in this order,
\* whatever order the directory walks took.
C1_MemberOrder ==
    ret = "True" =>
        MemberNamesOf(out) =
            << <<100, 101, 98, 105, 97, 110, 45, 98, 105, 110, 97, 114, 121>>,
               <<99, 111, 110, 116, 114, 111, 108, 46, 116, 97, 114, 46, 103, 122>>,
               <<100, 97, 116, 97, 46, 116, 97, 114, 46, 103, 122>> >>

\* a build that succeeded after a walk that was not in lexicographic order
C1_Witness ==
    /\ ret = "True"
    /\ Len(data_tar.entries) = 2
    /\ data_tar.entries[1].name = Lit(<<"u","s","r","/","b","i","n","/","t","o","o","l",".","p","y">>)
    /\ data_tar.entries[2].name = Lit(<<"u","s","r","/","b","i","n","/","t","o","o","l">>)

\* C7: when a step before the final write fails (a tar stream cannot be
\* built, a source file cannot be read), the destination is as it was
\* before the call: not created, not truncated, no partial archive.
C7_NoOutputOnEarlyFailure ==
    /\ "dest_open" \notin Range(log) => out = out0
    /\ ret = "False" => (out = out0 /\ "dest_open" \notin Range(log))

C7_Witness ==
    /\ ret = "False"
    /\ "control_closed" \in Range(log)
    /\ data_tar.state = "removed"
    /\ out0 = OldFile

DEB_ORDER ==
    <<"debian_binary", "control_open", "control_closed", "data_open",
      "data_closed", "ar_call", "dest_open", "dest_closed">>

\* C8: the steps of a build happen in the order debian-binary, control.tar.gz
\* built and closed, data.tar.gz built and closed, hand-over to the ar writer,
\* destination written; the destination is not opened while a tar stream is
\* unfinished.
C8_StrictOrder ==
    /\ Len(log) <= Len(DEB_ORDER)
    /\ log = SubSeq(DEB_ORDER, 1, Len(log))
    /\ ret = "True" => log = DEB_ORDER
    /\ out # out0 =>
         /\ control_tar.state \in {"closed", "removed"}
         /\ data_tar.state \in {"closed", "removed"}
         /\ {"control_closed", "data_closed"} \subseteq Range(log)

C8_Witness ==
    /\ caller = "deb"
    /\ pc = "ar_data"
    /\ i = 3
    /\ Len(control_tar.entries) >= 1
    /\ Len(data_tar.entries) >= 1

(* ----------------------- claims on the tar streams --------------------- *)

\* the staged file an entry of data.tar.gz was made from
DataSource(e) == CHOOSE f \in staging.files : JoinPath(f.path, 47) = e.name

\* the path has a directory named bin
HasBinSegment(path) == \E j \in 1..(Len(path) - 1) : path[j] = SEG_bin

\* C11: a data file whose relative path has a bin/ segment is stored with
\* mode 0o755 whatever its own mode, and every other data file is stored with
\* its own mode.
C11_BinSegmentMode ==
    \A k \in 1..Len(data_tar.entries) :
        LET e == data_tar.entries[k]
            f == DataSource(e)
        IN  e.mode = IF HasBinSegment(f.path) THEN MODE_755 ELSE f.mode

\* C12 as first stated: every file of DEBIAN, nested ones included, is stored
\* in control.tar.gz under its filename only.
C12_FilenameOnly ==
    \A k \in 1..Len(control_tar.entries) :
        \E f \in FilesUnder(SEG_DEBIAN) :
            control_tar.entries[k].name = f.path[Len(f.path)]

\* C12: every file of DEBIAN is stored in control.tar.gz under its path
\* relative to DEBIAN: the filename only for a file directly in DEBIAN, the
\* nested directories and the filename for a file below a sub-directory; and
\* the finished stream holds every file of DEBIAN once.
C12_RelativeToControlDir ==
    /\ \A k \in 1..Len(control_tar.entries) :
         \E f \in FilesUnder(SEG_DEBIAN) :
            /\ control_tar.entries[k].name = JoinPath(SubSeq(f.path, 2, Len(f.path)), 47)
            /\ Len(f.path) = 2 => control_tar.entries[k].name = f.path[2]
    /\ "control_closed" \in Range(log) =>
         /\ Len(control_tar.entries) = Cardinality(FilesUnder(SEG_DEBIAN))
         /\ \A f \in FilesUnder(SEG_DEBIAN) :
              \E k \in 1..Len(control_tar.entries) :
                 control_tar.entries[k].name = JoinPath(SubSeq(f.path, 2, Len(f.path)), 47)

C12_Witness ==
    /\ "control_closed" \in Range(log)
    /\ Len(control_tar.entries) = 2
    /\ control_tar.entries[1].name = Lit(<<"s","u","b","/","e","x","t","r","a">>)
    /\ control_tar.entries[2].name = Lit(<<"c","o","n","t","r","o","l">>)

\* the files that belong in data.tar.gz
DataFiles == FilesUnder(SEG_usr) \cup FilesUnder(SEG_etc)

\* C13: every file of the data subtree is stored in data.tar.gz under its
\* full path relative to the staging directory, segments joined by "/",
\* without any prefix; the finished stream holds each of them once.
C13_FullRelativePath ==
    /\ \A k \in 1..Len(data_tar.entries) :
         \E f \in DataFiles : data_tar.entries[k].name = JoinPath(f.path, 47)
    /\ "data_closed" \in Range(log) =>
         /\ Len(data_tar.entries) = Cardinality(DataFiles)
         /\ \A f \in DataFiles :
              \E k \in 1..Len(data_tar.entries) :
                 data_tar.entries[k].name = JoinPath(f.path, 47)

C13_Witness ==
    /\ "data_closed" \in Range(log)
    /\ sep = 92
    /\ \E k \in 1..Len(data_tar.entries) :
         data_tar.entries[k].name =
             Lit(<<"u","s","r","/","s","h","a","r","e","/","c","a","b","i","n","/","x">>)
    /\ \E k \in 1..Len(data_tar.entries) :
         data_tar.entries[k].name = Lit(<<"e","t","c","/","a","p","p",".","c","o","n","f">>)

(* ----------------------- claims on two invocations --------------------- *)

\* the names of the entries of a tar, in the order they were added
Names(tar) == [k \in 1..Len(tar.entries) |-> tar.entries[k].name]

\* this invocation and the one before it both built the package
BothBuilt == prev.valid /\ prev.ret = "True" /\ ret = "True"

\* C14: the order in which files are added to the tar streams is a function
\* of the staged tree alone: two builds of the same tree add the same files
\* in the same order
C14_StableOrder ==
    (BothBuilt /\ staging = prev.staging) =>
        /\ Names(control_tar) = Names(prev.control)
        /\ Names(data_tar) = Names(prev.data)

\* C15: two builds of the same staged tree write byte-identical .deb files
C15_ByteIdentical ==
    (BothBuilt /\ staging = prev.staging) => out.chunks = prev.out.chunks

\* C20: what an invocation returns and leaves at the output path depends
\* only on the staged tree: an invocation that finds the tree of the one
\* before it ends as that one did, whether that one succeeded or failed
C20_DependsOnlyOnTree ==
    (prev.valid /\ pc = "done" /\ staging = prev.staging) =>
        /\ ret = prev.ret
        /\ out = prev.out

(* --------------------------- claims on errors -------------------------- *)

\* C19: an error aborts the build: the step that fails goes to the handler,
\* the handler writes nothing, starts no other step and returns False, and
\* a missing staging directory returns False at once; nothing runs after
\* False is returned
C19_ErrorsAbort ==
    [][ /\ (raised = "none" /\ raised' # "none") => pc' = "deb_except"
        /\ pc = "deb_except" =>
             (pc' = "done" /\ ret' = "False" /\ log' = log /\ out' = out /\ disk' = disk)
        /\ (pc = "deb_check" /\ ~staging.exists) => (pc' = "done" /\ ret' = "False")
        /\ ret' = "False" => pc' = "done"
        /\ ret = "False" => UNCHANGED vars ]_vars

\* a file of DEBIAN could not be read, and the build returned False with
\* the data tar never opened
C19_Witness ==
    /\ pc = "done"
    /\ ret = "False"
    /\ control_tar.state = "removed"
    /\ control_tar.entries # <<>>
    /\ data_tar.state = "none"
    /\ "data_open" \notin Range(log)

(* ---------------------- claims on the control file --------------------- *)

Missing(v) == v = <<>> \/ v = NONE

\* C17: a build whose control metadata has no version fails validation
\* before any file is written: no control file is written, the build does
\* not succeed, and no .deb comes to exist
C17_MissingVersionRejected ==
    Missing(meta.version) =>
        /\ ~control_text.written
        /\ ret # "True"
        /\ "dest_open" \notin Range(log)
        /\ out0 = NoFile => ~out.exists

\* C18: rendering the control file rejects a missing package name, a
\* missing version, and a name or version with a newline in it: control
\* text is produced only from metadata that has none of these
C18_RenderValidates ==
    control_text.written =>
        /\ ~Missing(meta.app_name)
        /\ ~Missing(meta.version)
        /\ 10 \notin Range(meta.app_name)
        /\ 10 \notin Range(meta.version)

(* ----------------------- claims on builds at a time -------------------- *)

\* the writes create_ar_archive makes for the members fs, from member k on
RECURSIVE MemberChunks(_, _)
MemberChunks(fs, k) ==
    IF k > Len(fs) THEN <<>>
    ELSE <<Bytes(ArHeader(fs[k][1], fs[k][2])), fs[k][2]>>
         \o (IF BigOdd(PyLen(fs[k][2])) THEN <<Bytes(<<10>>)>> ELSE <<>>)
         \o MemberChunks(fs, k + 1)

\* the .deb made of the two tars as build b wrote them
ArchiveOf(b) ==
    <<Bytes(<<33, 60, 97, 114, 99, 104, 62, 10>>)>> \o
    MemberChunks(<< <<NAME_SHORT, Bytes(<<50, 46, 48, 10>>)>>,
                    <<Lit(<<"c","o","n","t","r","o","l",".","t","a","r",".","g","z">>),
                      TarGzBytes(b.control_tar)>>,
                    <<Lit(<<"d","a","t","a",".","t","a","r",".","g","z">>),
                      TarGzBytes(b.data_tar)>> >>, 1)

\* the entries a tar of build b must hold, taken from the tree of b
ControlEntriesOf(b) ==
    { [name |-> JoinPath(SubSeq(f.path, 2, Len(f.path)), 47), mode |-> f.mode, size |-> f.size] :
        f \in {g \in b.staging.files : g.path[1] = SEG_DEBIAN} }

DataEntriesOf(b) ==
    { [name |-> JoinPath(f.path, 47), mode |-> DataMode(f, f.path), size |-> f.size] :
        f \in {g \in b.staging.files : g.path[1] \in {SEG_usr, SEG_etc}} }

\* build b can build its tree
Buildable(b) ==
    /\ b.staging.exists
    /\ \A f \in b.staging.unreadable : f.path[1] \notin {SEG_DEBIAN, SEG_usr, SEG_etc}

\* build b ended as it would have ended by itself: True and a .deb of its
\* own tree and of nothing else, or False and no .deb
AsAlone(b) ==
    /\ b.pc = "done" => (b.ret = "True" <=> Buildable(b))
    /\ b.ret = "True" =>
         /\ b.disk.exists
         /\ b.disk.chunks = ArchiveOf(b)
         /\ Range(b.control_tar.entries) = ControlEntriesOf(b)
         /\ Range(b.data_tar.entries) = DataEntriesOf(b)
         /\ Len(b.control_tar.entries) = Cardinality(ControlEntriesOf(b))
         /\ Len(b.data_tar.entries) = Cardinality(DataEntriesOf(b))
    /\ b.ret = "False" => b.disk = NoFile

\* the suspended build, with the tree and the file of its directory
Suspended == IF same_cwd THEN [other EXCEPT !.staging = staging, !.disk = disk] ELSE other

\* two temporary directories that exist at a time have different names
DistinctTemps == (temp = "exists" /\ other.temp = "exists") => temp_name # other.temp_name

\* C16 as the spec has it: two builds at a time never have the same
\* temporary directory, and under every interleaving each ends as it would
\* have ended alone
C16_AnyInterleaving ==
    /\ DistinctTemps
    /\ overlap => (AsAlone(Running) /\ AsAlone(Suspended))

\* C16: two builds at a time in different working directories never have
\* the same temporary directory, and under every interleaving each ends as
\* it would have ended alone
C16_DifferentDirectories ==
    /\ DistinctTemps
    /\ (overlap /\ ~same_cwd) => (AsAlone(Running) /\ AsAlone(Suspended))

\* two builds in different directories had their temporary directories at
\* the same time, and both wrote their .deb
C16_Witness ==
    /\ ~same_cwd
    /\ overlap
    /\ ret = "True"
    /\ other.ret = "True"
    /\ disk.exists
    /\ other.disk.exists

(* ------------------- claims on what a build leaves --------------------- *)

\* C21: a successful create_deb_package leaves one new file, the .deb: no
\* step changes the staged tree, and when True is returned the output
\* exists and the temporary directory with control.tar.gz and data.tar.gz
\* in it is gone
C21_OnlyTheDeb ==
    [][ /\ staging' = staging
        /\ ret' = "True" =>
             /\ out'.exists
             /\ disk' = out'
             /\ temp' = "removed"
             /\ control_tar'.state = "removed"
             /\ data_tar'.state = "removed"
             /\ tmp_used' = {} ]_vars

\* a build of a tree with data files returned True where there was no
\* .deb before
C21_Witness ==
    /\ ret = "True"
    /\ out0 = NoFile
    /\ out.exists
    /\ temp = "removed"
    /\ control_tar.entries # <<>>
    /\ data_tar.entries # <<>>

\* C22: the first member of a .deb that create_deb_package writes has the
\* payload "2.0\n": its size field reads 4, and the header of
\* control.tar.gz, not a padding byte, comes right after the payload
C22_DebianBinaryMember ==
    (caller = "deb" /\ "dest_open" \in Range(log)) =>
        /\ Len(out.chunks) >= 2 =>
             /\ SubSeq(out.chunks[2].head, 1, 16) = Field(NAME_SHORT, 16)
             /\ SubSeq(out.chunks[2].head, 49, 58) = Field(<<52>>, 10)
        /\ Len(out.chunks) >= 3 => out.chunks[3] = Bytes(<<50, 46, 48, 10>>)
        /\ Len(out.chunks) >= 4 =>
             /\ Len(out.chunks[4].head) = 60
             /\ SubSeq(out.chunks[4].head, 1, 16) =
                  Field(<<99, 111, 110, 116, 114, 111, 108, 46, 116, 97, 114, 46, 103, 122>>, 16)
        /\ ret = "True" => Len(out.chunks) >= 7

\* a .deb was written to the end
C22_Witness ==
    /\ ret = "True"
    /\ caller = "deb"
    /\ Len(out.chunks) >= 7
    /\ out.chunks[3].head = <<50, 46, 48, 10>>

\* C23: when create_ar_archive fails on the name of member k, the output
\* file exists, what was at the path before is gone, and the file holds the
\* magic and the headers, payloads and padding of members 1..k-1, and
\* nothing of member k
C23_PartialOnEncodeFailure ==
    raised = "UnicodeEncodeError" =>
        /\ i \in 1..Len(files)
        /\ ~IsAscii(files[i][1])
        /\ \A j \in 1..(i - 1) : IsAscii(files[j][1])
        /\ out.exists
        /\ out.chunks = <<Bytes(<<33, 60, 97, 114, 99, 104, 62, 10>>)>>
                          \o MemberChunks(SubSeq(files, 1, i - 1), 1)

\* the second name could not be encoded, and there was a file at the path
C23_Witness ==
    /\ raised = "UnicodeEncodeError"
    /\ i = 2
    /\ out0 = OldFile
    /\ Len(out.chunks) >= 3

(* ---------------------- claims on the data entries --------------------- *)

\* the file name of f has no suffix or the suffix .sh
ShOrNoSuffix(f) ==
    LET name == f.path[Len(f.path)]
        n    == Len(name)
        dots == {k \in 1..n : name[k] = 46}
    IN  \/ dots = {}
        \/ LET d == CHOOSE k \in dots : \A j \in dots : j <= k
           IN  d = 1 \/ d = n \/ SubSeq(name, d, n) = <<46, 115, 104>>

BIN_SLASH == <<98, 105, 110, 47>>

UnreadableInput ==
    \E f \in staging.unreadable : f.path[1] \in {SEG_DEBIAN, SEG_usr, SEG_etc}

\* C25: data.tar.gz holds a regular file of the staging directory exactly
\* when the file lies under usr or etc: every entry is such a file, never a
\* directory, a file of DEBIAN or a file of another top-level directory;
\* once the tar is closed every such file is in it once; and a missing usr
\* or etc is no error
C25_OnlyUsrAndEtc ==
    /\ \A k \in 1..Len(data_tar.entries) :
         \E f \in staging.files :
            /\ f.path[1] \in {SEG_usr, SEG_etc}
            /\ data_tar.entries[k].name = JoinPath(f.path, 47)
            /\ data_tar.entries[k].size = f.size
    /\ "data_closed" \in Range(log) =>
         /\ {data_tar.entries[k].name : k \in 1..Len(data_tar.entries)}
              = {JoinPath(f.path, 47) : f \in DataFiles}
         /\ Len(data_tar.entries) = Cardinality(DataFiles)
    /\ raised # "none" => UnreadableInput
    /\ (pc = "done" /\ staging.exists /\ ~UnreadableInput) => ret = "True"

\* a tree with files under DEBIAN, etc and opt and without usr was built,
\* and only the file of etc is in data.tar.gz
C25_Witness ==
    /\ ret = "True"
    /\ ~SubdirExists(SEG_usr)
    /\ FilesUnder(SEG_etc) # {}
    /\ FilesUnder(SEG_DEBIAN) # {}
    /\ \E f \in staging.files : f.path[1] \notin {SEG_DEBIAN, SEG_usr, SEG_etc}
    /\ Len(data_tar.entries) = 1

(* ----------------------- claims on the exit paths ---------------------- *)

\* C26: without the staging directory create_deb_package returns False,
\* makes no temporary directory and leaves the output path as it was
C26_MissingStaging ==
    ~staging.exists =>
        /\ temp = "none"
        /\ temp_name = 0
        /\ tmp_used = {}
        /\ log = <<>>
        /\ out = out0
        /\ disk = out0
        /\ ret # "True"
        /\ pc = "done" => ret = "False"

\* the build returned False for want of the staging directory, with an
\* older .deb at the output path
C26_Witness ==
    /\ pc = "done"
    /\ ret = "False"
    /\ ~staging.exists
    /\ out0 = OldFile
    /\ out = OldFile

Results == [j \in 1..Len(tried) |-> tried[j].result]

\* the loop is over
LoopOver == bpc \in {"after_loop", "chdir_back", "copy", "return"}

\* C28: build_deb_package runs fakeroot dpkg-deb first and plain dpkg-deb
\* after it, runs no command after one that succeeded, makes the tarball
\* only after both commands failed with a non-zero exit or for not being
\* found, and never makes both a .deb and a tarball
C28_CommandOrder ==
    /\ Len(tried) <= 2
    /\ \A j \in 1..Len(tried) : tried[j].cmd = <<"fakeroot dpkg-deb", "dpkg-deb">>[j]
    /\ \A j \in 1..(Len(tried) - 1) : tried[j].result \in {"nonzero", "notfound"}
    /\ (LoopOver /\ ~success) =>
         (Len(tried) = 2 /\ tried[2].result \in {"nonzero", "notfound"})
    /\ TarballName(meta) \in made =>
         (Len(tried) = 2 /\ \A j \in 1..2 : tried[j].result \in {"nonzero", "notfound"})
    /\ DebFilename(meta) \in made => (success /\ tried[Len(tried)].result = "ok")
    /\ ~(DebFilename(meta) \in made /\ TarballName(meta) \in made)

\* fakeroot was not found, dpkg-deb built the package, and True was
\* returned
C28_Witness ==
    /\ bret = "True"
    /\ Results = <<"notfound", "ok">>
    /\ made = {DebFilename(meta)}

\* C29: when build_deb_package has returned True, what it made in the
\* package directory, .deb or tarball, has been copied to the project
\* directory
C29_ArtifactCopied ==
    bret = "True" => (made # {} /\ made \subseteq copied)

\* C30: when build_deb_package has returned, the working directory is the
\* project directory
C30_CwdRestored ==
    bpc = "returned" => cwd = "project"

==============================================================================
